---- MODULE Spec2Model ----
(***************************************************************************)
(* State-machine model of the chat-completions worker (src/src/index.ts):  *)
(* the session orchestrator (handleChatCompletionsRoute), the stream       *)
(* translator (createStreamResponse / handleStreamResponsePart), the       *)
(* aggregate translator (createNormalResponse) and the continuity cache    *)
(* (./conversation, modelled from the specification).                      *)
(*                                                                         *)
(* Text is a sequence of one-character strings.  The upstream body is a    *)
(* sequence of wire symbols: LF, the six-character prefix "data: " (one    *)
(* symbol of width six) and JSON tokens.                                   *)
(***************************************************************************)
EXTENDS Integers, Sequences, FiniteSets, TLC

(* ------------------------------ bounds --------------------------------- *)

\* Frames in the body of one upstream answer.
MaxFrames == 2
\* Turns of a history, and characters of a turn, given to the fingerprint
\* engine.
MaxTurns == 2
MaxTextLen == 3
\* Frames in a body given to the two translators alone.
MaxBodyFrames == 3

(* ------------------------- program constants --------------------------- *)

\* part.substring(6): the length of the framing prefix that is stripped.
PrefixLen == 6

(* ------------------------------ symbols -------------------------------- *)

\* A missing, null or empty token: all are falsy where the code tests them.
NoToken == ""
\* The value of a field that a parsed object does not have.
Undefined == "undefined"

LF == "LF"
\* The framing prefix "data: " as one wire symbol.
Prefix == "data: "
\* Whitespace symbols, as String.prototype.trim() sees them.
Whitespace == {" ", LF}

\* JSON string-literal tokens and the text each one denotes.
StrTokens == {"a", "b", "e"}
StrValue(tok) == IF tok = "e" THEN <<>> ELSE <<tok>>

\* Width of a wire symbol in characters.
Width(sym) == IF sym = Prefix THEN 6 ELSE 1

(* ------------------------- string primitives --------------------------- *)

\* String.prototype.substring(n): the characters from index n on.
RECURSIVE Substring(_, _)
Substring(s, n) ==
    IF n <= 0 \/ s = <<>> THEN s ELSE Substring(Tail(s), n - Width(Head(s)))

\* Index of the first LF of s, 0 when there is none.
RECURSIVE IndexOfLF(_, _)
IndexOfLF(s, i) ==
    IF i > Len(s) THEN 0 ELSE IF s[i] = LF THEN i ELSE IndexOfLF(s, i + 1)

\* String.prototype.split("\n"): always at least one fragment, the last one
\* being what follows the last LF.
RECURSIVE SplitLF(_)
SplitLF(s) ==
    LET i == IndexOfLF(s, 1) IN
    IF i = 0 THEN <<s>>
    ELSE <<SubSeq(s, 1, i - 1)>> \o SplitLF(SubSeq(s, i + 1, Len(s)))

\* String.prototype.trim().
RECURSIVE TrimLeft(_)
TrimLeft(s) ==
    IF s # <<>> /\ Head(s) \in Whitespace THEN TrimLeft(Tail(s)) ELSE s
RECURSIVE TrimRight(_)
TrimRight(s) ==
    IF s # <<>> /\ s[Len(s)] \in Whitespace
    THEN TrimRight(SubSeq(s, 1, Len(s) - 1)) ELSE s
Trim(s) == TrimRight(TrimLeft(s))

\* Array.prototype.join(sep) over an array of texts.
RECURSIVE Join(_, _)
Join(texts, sep) ==
    IF texts = <<>> THEN <<>>
    ELSE IF Len(texts) = 1 THEN texts[1]
    ELSE texts[1] \o sep \o Join(Tail(texts), sep)

\* pop() whose result is thrown away: nothing is carried over.
LastDropped(seq) == <<>>

\* Array.prototype.pop() || "": the last fragment of a split.
Last(seq) == seq[Len(seq)]
\* The array after pop(): everything but the last fragment.
Front(seq) == SubSeq(seq, 1, Len(seq) - 1)

(* ----------------------------- JSON.parse ------------------------------ *)

\* The result of JSON.parse on a token sequence: a SyntaxError, an array
\* (no named fields) or an object with optional action and message members.
SyntaxError == [ok |-> FALSE, action |-> Undefined, hasMessage |-> FALSE, message |-> <<>>]
JsonObject(action, hasMessage, message) ==
    [ok |-> TRUE, action |-> action, hasMessage |-> hasMessage, message |-> message]

ParseMembers(m) ==
    IF m = <<>> THEN JsonObject(Undefined, FALSE, <<>>)
    ELSE IF m = <<"A">> THEN JsonObject("success", FALSE, <<>>)
    ELSE IF Len(m) = 2 /\ m[1] = "M" /\ m[2] \in StrTokens
        THEN JsonObject(Undefined, TRUE, StrValue(m[2]))
    ELSE IF Len(m) = 3 /\ m[1] = "A" /\ m[2] = "M" /\ m[3] \in StrTokens
        THEN JsonObject("success", TRUE, StrValue(m[3]))
    ELSE SyntaxError

JsonParse(p) ==
    IF Len(p) >= 2 /\ p[1] = "{" /\ p[Len(p)] = "}"
        THEN ParseMembers(SubSeq(p, 2, Len(p) - 1))
    ELSE IF p = <<"[", "]">> THEN JsonObject(Undefined, FALSE, <<>>)
    ELSE SyntaxError

(* ------------------------ continuity cache ----------------------------- *)

\* hashString(text, algorithm): a collision-free digest, kept as the pair of
\* the algorithm and the text it digests.
hashString(text, alg) == [alg |-> alg, of |-> text]

\* generateConversationHash(messages): the texts joined with one comma,
\* then hashed.
generateConversationHash(texts) == hashString(Join(texts, <<",">>), "SHA-256")

\* getConversationId(kv, key): the stored token, NoToken when absent.
getConversationId(kv, key) == IF key \in DOMAIN kv THEN kv[key] ELSE NoToken

\* saveConversationId(kv, key, id): upsert, the last writer wins.
saveConversationId(kv, key, id) ==
    [k \in DOMAIN kv \cup {key} |-> IF k = key THEN id ELSE kv[k]]

EmptyKV == [k \in {} |-> NoToken]

\* The two operations with the backend unavailable (down): a lookup is a
\* miss, a store is swallowed and leaves the store as it was.
lookupConversationId(kv, down, key) ==
    IF down THEN NoToken ELSE getConversationId(kv, key)
putConversationId(kv, down, key, id) ==
    IF down THEN kv ELSE saveConversationId(kv, key, id)

(* ------------------------- upstream frames ----------------------------- *)

\* The upstream events of the three termination idioms, and the frames the
\* translators must ignore.
MessageDelta(tok) == [tag |-> "messageDelta", text |-> tok]
Event(tag) == [tag |-> tag, text |-> "e"]
DeltaTokens == {"a", "b"}
FrameKinds ==
    {MessageDelta(t) : t \in DeltaTokens}
    \cup {Event("successNoMessage"), Event("successEmptyMessage"),
          Event("doneMarker"), Event("blankFrame"), Event("malformed"),
          Event("unclassifiable")}

\* The literal done marker "[DONE]" as the payload of a frame.
DoneMarker == <<"[", "D", "]">>

\* One event line as the upstream writes it, without its LF.
EncodeFrame(f) ==
    CASE f.tag = "messageDelta" -> <<Prefix, "{", "M", f.text, "}">>
      [] f.tag = "successNoMessage" -> <<Prefix, "{", "A", "}">>
      [] f.tag = "successEmptyMessage" -> <<Prefix, "{", "A", "M", "e", "}">>
      [] f.tag = "doneMarker" -> <<Prefix>> \o DoneMarker
      [] f.tag = "blankFrame" -> <<>>
      [] f.tag = "malformed" -> <<Prefix, "{">>
      [] OTHER -> <<Prefix, "{", "}">>

\* The bytes of a body: every frame followed by LF, except that the last
\* one is left unterminated when terminated is FALSE.
RECURSIVE EncodeBody(_, _)
EncodeBody(frames, terminated) ==
    IF frames = <<>> THEN <<>>
    ELSE IF Len(frames) = 1
        THEN EncodeFrame(frames[1]) \o (IF terminated THEN <<LF>> ELSE <<>>)
    ELSE EncodeFrame(frames[1]) \o <<LF>> \o EncodeBody(Tail(frames), terminated)

\* All frame sequences of length at most n.
RECURSIVE FrameSeqs(_)
FrameSeqs(n) ==
    IF n = 0 THEN {<<>>}
    ELSE LET shorter == FrameSeqs(n - 1) IN
         shorter \cup {Append(fs, f) : fs \in shorter, f \in FrameKinds}

(* -------------------------- stream translator -------------------------- *)

\* A record written downstream: an OpenAI chunk, the terminal sentinel, or
\* the text "undefined" (JSON.stringify of no chunk).
Chunk(hasContent, content, finish) ==
    [kind |-> "chunk", hasContent |-> hasContent, content |-> content, finish |-> finish]
Sentinel == [kind |-> "[DONE]", hasContent |-> FALSE, content |-> <<>>, finish |-> "null"]
UndefinedRecord == [kind |-> "undefined", hasContent |-> FALSE, content |-> <<>>, finish |-> "null"]
\* lastMessagePartResponse while nothing is buffered.
NoChunk == [kind |-> "none", hasContent |-> FALSE, content |-> <<>>, finish |-> "null"]

\* The per-request state of createStreamResponse together with what its
\* handler touches: the destination stream and the key-value store.
StreamState(parts, last, done, written, store, puts, down) ==
    [messageParts |-> parts, lastMessagePartResponse |-> last,
     responseHasDone |-> done, out |-> written, kv |-> store, kvPuts |-> puts,
     kvDown |-> down]

\* The two places that persist the mapping: only when text was received.
SaveIfAny(s, userMessages, conversationId) ==
    IF s.messageParts # <<>>
    THEN [s EXCEPT
            !.kv = putConversationId(s.kv, s.kvDown,
                       generateConversationHash(
                           Append(userMessages, Join(s.messageParts, <<>>))),
                       conversationId),
            !.kvPuts = @ + 1]
    ELSE s

\* HandleMessage that writes the new chunk at once instead of the held one.
HandleMessageEager(s, message) ==
    [s EXCEPT
        !.out = Append(s.out, Chunk(TRUE, message, "null")),
        !.messageParts = Append(s.messageParts, message),
        !.lastMessagePartResponse = Chunk(TRUE, message, "null")]

\* handleStreamResponsePart, branch `if (message)`.
HandleMessage(s, message) ==
    [s EXCEPT
        !.out = IF s.lastMessagePartResponse # NoChunk
                THEN Append(s.out, s.lastMessagePartResponse) ELSE s.out,
        !.messageParts = Append(s.messageParts, message),
        !.lastMessagePartResponse = Chunk(TRUE, message, "null")]

\* handleStreamResponsePart, branch of a success frame without text.
\* JSON.stringify(undefined) is not a string: writeSSE then either rejects
\* (rejects = TRUE; the catch swallows it and nothing more is written) or
\* writes the text "undefined".
HandleSuccess(s, userMessages, conversationId, rejects) ==
    LET last == IF s.lastMessagePartResponse # NoChunk
                THEN [s.lastMessagePartResponse EXCEPT !.finish = "stop"]
                ELSE NoChunk
        saved == SaveIfAny(s, userMessages, conversationId)
    IN  IF last = NoChunk /\ rejects
        THEN saved
        ELSE [saved EXCEPT
                !.lastMessagePartResponse = last,
                !.out = s.out \o
                    <<IF last = NoChunk THEN UndefinedRecord ELSE last, Sentinel>>,
                !.responseHasDone = TRUE]

\* handleStreamResponsePart, branch `serverStreamPart === "[DONE]"`.
HandleDone(s, userMessages, conversationId) ==
    [SaveIfAny(s, userMessages, conversationId) EXCEPT
        !.out = (IF s.lastMessagePartResponse # NoChunk
                 THEN Append(s.out, s.lastMessagePartResponse) ELSE s.out)
                \o <<Chunk(FALSE, <<>>, "stop"), Sentinel>>,
        !.responseHasDone = TRUE]

\* handleStreamResponsePart without the early return of lines 227-229.
handleStreamResponsePartNoGuard(s, serverStreamPart, userMessages, conversationId, rejects) ==
    LET parsed == JsonParse(serverStreamPart)
        successWithNoMessage == parsed.action = "success" /\ ~parsed.hasMessage
        successWithEmptyMessage ==
            parsed.action = "success" /\ parsed.hasMessage /\ parsed.message = <<>>
    IN  IF ~parsed.ok THEN s
        ELSE IF parsed.hasMessage /\ parsed.message # <<>>
            THEN HandleMessage(s, parsed.message)
        ELSE IF successWithNoMessage \/ successWithEmptyMessage
            THEN HandleSuccess(s, userMessages, conversationId, rejects)
        ELSE s

\* handleStreamResponsePart whose catch gives up on the stream: a frame
\* that fails to parse or to classify ends the translation.
handleStreamResponsePartFatal(s, serverStreamPart, userMessages, conversationId, rejects) ==
    IF s.responseHasDone THEN s
    ELSE
    LET parsed == JsonParse(serverStreamPart)
        successWithNoMessage == parsed.action = "success" /\ ~parsed.hasMessage
        successWithEmptyMessage ==
            parsed.action = "success" /\ parsed.hasMessage /\ parsed.message = <<>>
    IN  IF ~parsed.ok THEN [s EXCEPT !.responseHasDone = TRUE]
        ELSE IF parsed.hasMessage /\ parsed.message # <<>>
            THEN HandleMessage(s, parsed.message)
        ELSE IF successWithNoMessage \/ successWithEmptyMessage
            THEN HandleSuccess(s, userMessages, conversationId, rejects)
        ELSE [s EXCEPT !.responseHasDone = TRUE]

\* handleStreamResponsePart: one decoded frame.  Everything from JSON.parse
\* on runs inside the try; whatever throws there is swallowed by the catch.
handleStreamResponsePart(s, serverStreamPart, userMessages, conversationId, rejects) ==
    IF s.responseHasDone THEN s
    ELSE
    LET parsed == JsonParse(serverStreamPart)
        successWithNoMessage == parsed.action = "success" /\ ~parsed.hasMessage
        successWithEmptyMessage ==
            parsed.action = "success" /\ parsed.hasMessage /\ parsed.message = <<>>
        emptyStreamMessage == Trim(serverStreamPart) = <<>>
    IN  IF ~parsed.ok THEN s
        ELSE IF parsed.hasMessage /\ parsed.message # <<>>
            THEN HandleMessage(s, parsed.message)
        ELSE IF (successWithNoMessage \/ successWithEmptyMessage) /\ ~emptyStreamMessage
            THEN HandleSuccess(s, userMessages, conversationId, rejects)
        ELSE IF serverStreamPart = DoneMarker
            THEN HandleDone(s, userMessages, conversationId)
        ELSE s

\* part.substring(6) of every fragment: the payloads handed on.
Payloads(parts) == [i \in 1..Len(parts) |-> Substring(parts[i], PrefixLen)]

\* The for loop over the complete frames of one delivery.
RECURSIVE HandleParts(_, _, _, _, _)
HandleParts(s, parts, userMessages, conversationId, rejects) ==
    IF parts = <<>> THEN s
    ELSE HandleParts(
            handleStreamResponsePart(s, Substring(parts[1], PrefixLen),
                                     userMessages, conversationId, rejects),
            Tail(parts), userMessages, conversationId, rejects)

(* ------------------------- aggregate translator ------------------------ *)

\* One step of the fold of createNormalResponse: a frame that parses and
\* carries a truthy message appends it, anything else leaves the text alone.
FoldPart(responseContent, part) ==
    LET parsed == JsonParse(Substring(part, PrefixLen)) IN
    IF parsed.ok /\ parsed.hasMessage /\ parsed.message # <<>>
    THEN responseContent \o parsed.message
    ELSE responseContent

\* FoldParts with the try around the loop instead of inside it: the first
\* frame that fails to parse ends the fold.
RECURSIVE FoldPartsAbort(_, _)
FoldPartsAbort(responseContent, parts) ==
    IF parts = <<>> THEN responseContent
    ELSE IF ~JsonParse(Substring(parts[1], PrefixLen)).ok THEN responseContent
    ELSE FoldPartsAbort(FoldPart(responseContent, parts[1]), Tail(parts))

RECURSIVE FoldParts(_, _)
FoldParts(responseContent, parts) ==
    IF parts = <<>> THEN responseContent
    ELSE FoldParts(FoldPart(responseContent, parts[1]), Tail(parts))


(* ------------------------------- state --------------------------------- *)

VARIABLES
    \* the request: message contents, x-vqd-4 request header, stream flag,
    \* and whether the Authorization check passes
    messages, reqToken, isStream, authorized,
    \* position in handleChatCompletionsRoute and its two locals
    pc, conversationId, newConversationId,
    \* the key-value store c.env.CONVERSATIONS
    kv,
    \* the upstream body not yet read, and the read loop's carry-over buffer
    wire, buffer,
    \* the locals of createStreamResponse and the destination stream
    messageParts, lastMessagePartResponse, responseHasDone, out,
    \* the HTTP response of the route
    response,
    \* the chat endpoint's answer: success flag, raw body text of a failure,
    \* the x-vqd-4 header it issued
    answer,
    \* the frames of its body, and whether the last one ended in LF
    frames, terminated,
    \* calls made to the collaborators during this request, and the token
    \* the chat call carried
    calls,
    \* how many frames the next upstream answer may hold
    quota,
    \* whether this is a follow-up request, and the exchange before it
    followUp, prev,
    \* two histories and their fingerprints (the fingerprint engine alone)
    probe,
    \* whether the key-value backend is unavailable during this request
    kvDown,
    \* the payloads handed to the frame handler (stream) or parser (aggregate)
    handed,
    \* the client's connection: whether it has gone, and whether the worker
    \* has read from the upstream or written to the cache since
    client

vars == <<messages, reqToken, isStream, authorized, pc, conversationId,
          newConversationId, kv, wire, buffer, messageParts,
          lastMessagePartResponse, responseHasDone, out, response, answer,
          frames, terminated, calls, quota, followUp, prev, probe, kvDown,
          handed, client>>

request == <<messages, reqToken, isStream, authorized>>
streamLocals == <<messageParts, lastMessagePartResponse, responseHasDone, out>>
session == <<followUp, prev, probe, kvDown>>
channel == <<handed, client>>
body == <<answer, frames, terminated>>

\* Tokens: the caller's, the status endpoint's, the chat endpoint's.
CallerTokens == {"vqd-caller"}
StatusTokens == {"vqd-status"}
IssuedTokens == {"vqd-next"}
\* Raw body texts of a failed upstream answer.
ErrorTexts == {"blocked", "rate limited"}
\* Message contents a caller sends.
UserText == <<"q">>

NoCalls == [kvGet |-> 0, status |-> 0, chat |-> 0, kvPut |-> 0, sent |-> NoToken]
NoAnswer == [ok |-> FALSE, text |-> "", token |-> NoToken]
NoProbe == [a |-> <<>>, b |-> <<>>, fa |-> hashString(<<>>, ""), fb |-> hashString(<<>>, ""),
            applied |-> FALSE]
Connected == [aborted |-> FALSE, read |-> FALSE, stored |-> FALSE]
NoResponse ==
    [status |-> 0, vqdSet |-> FALSE, vqd |-> NoToken, error |-> "",
     message |-> "", content |-> <<>>, finish |-> "", usage |-> <<>>]
NoExchange ==
    [status |-> 0, stream |-> FALSE, hist |-> <<>>, text |-> <<>>,
     token |-> NoToken, ended |-> FALSE]

\* c.json({error, message?}, status): an error response; a header set
\* earlier with c.header stays on it.
JsonError(r, status, error, message) ==
    [r EXCEPT !.status = status, !.error = error, !.message = message]

FreshRequest ==
    /\ conversationId = NoToken
    /\ newConversationId = NoToken
    /\ wire = <<>>
    /\ buffer = <<>>
    /\ messageParts = <<>>
    /\ lastMessagePartResponse = NoChunk
    /\ responseHasDone = FALSE
    /\ out = <<>>
    /\ response = NoResponse
    /\ answer = NoAnswer
    /\ frames = <<>>
    /\ terminated = TRUE
    /\ calls = NoCalls
    /\ handed = <<>>
    /\ client = Connected

Init ==
    /\ messages \in {<<UserText>>}
    /\ reqToken \in CallerTokens \cup {NoToken}
    /\ isStream \in BOOLEAN
    /\ authorized \in BOOLEAN
    /\ kv = EmptyKV
    /\ kvDown \in BOOLEAN
    /\ quota = MaxFrames
    /\ followUp = FALSE
    /\ prev = NoExchange
    /\ probe = NoProbe
    /\ pc = "start"
    /\ FreshRequest

(* ------------------------ session orchestrator ------------------------- *)

\* Lines 114-141 and 167-169: the authorization gate, then the caller's
\* token when there is one.
Start ==
    /\ pc = "start"
    /\ IF ~authorized
       THEN /\ response' = JsonError(response, 401, "Authorization required", "")
            /\ pc' = "done"
            /\ UNCHANGED conversationId
       ELSE /\ conversationId' = reqToken
            /\ pc' = IF reqToken # NoToken THEN "fetch" ELSE "lookup"
            /\ UNCHANGED response
    /\ UNCHANGED <<request, newConversationId, kv, wire, buffer, streamLocals,
                   body, calls, quota, session, channel>>

\* Lookup that gives up when the cache returns no token: a 503 without
\* asking the status endpoint.
LookupNoFallback ==
    /\ pc = "lookup"
    /\ LET previousConversationId ==
               lookupConversationId(kv, kvDown,
                                    generateConversationHash(Front(messages)))
       IN  IF previousConversationId # NoToken
           THEN /\ conversationId' = previousConversationId
                /\ pc' = "check"
                /\ UNCHANGED response
           ELSE /\ response' = JsonError(response, 503, "Cache unavailable", "")
                /\ pc' = "done"
                /\ UNCHANGED conversationId
    /\ calls' = [calls EXCEPT !.kvGet = @ + 1]
    /\ UNCHANGED <<request, newConversationId, kv, wire, buffer, streamLocals,
                   body, quota, session, channel>>

\* Lookup without the slice: the hash is taken over every turn.
LookupWholeHistory ==
    /\ pc = "lookup"
    /\ LET previousConversationId ==
               lookupConversationId(kv, kvDown,
                                    generateConversationHash(messages))
       IN  IF previousConversationId # NoToken
           THEN /\ conversationId' = previousConversationId
                /\ pc' = "check"
           ELSE /\ pc' = "status"
                /\ UNCHANGED conversationId
    /\ calls' = [calls EXCEPT !.kvGet = @ + 1]
    /\ UNCHANGED <<request, newConversationId, kv, wire, buffer, streamLocals,
                   response, body, quota, session, channel>>

\* Lines 143-153: the cache lookup under the hash of all turns but the last.
Lookup ==
    /\ pc = "lookup"
    /\ LET previousConversationHash ==
               generateConversationHash(Front(messages))
           previousConversationId ==
               lookupConversationId(kv, kvDown, previousConversationHash)
       IN  IF previousConversationId # NoToken
           THEN /\ conversationId' = previousConversationId
                /\ pc' = "check"
           ELSE /\ pc' = "status"
                /\ UNCHANGED conversationId
    /\ calls' = [calls EXCEPT !.kvGet = @ + 1]
    /\ UNCHANGED <<request, newConversationId, kv, wire, buffer, streamLocals,
                   response, body, quota, session, channel>>

\* Line 154 and createNewConversationId: the status endpoint's x-vqd-4
\* header, or "" when it sent none.
NewConversationId ==
    /\ pc = "status"
    /\ \E t \in StatusTokens \cup {NoToken} : conversationId' = t
    /\ calls' = [calls EXCEPT !.status = @ + 1]
    /\ pc' = "check"
    /\ UNCHANGED <<request, newConversationId, kv, wire, buffer, streamLocals,
                   response, body, quota, session, channel>>

\* CheckToken without the guard of line 159: the chat call goes out with
\* whatever was resolved.
CheckTokenNoGuard ==
    /\ pc = "check"
    /\ pc' = "fetch"
    /\ UNCHANGED <<request, conversationId, newConversationId, kv, wire, buffer,
                   streamLocals, response, body, calls, quota, session, channel>>

\* Lines 159-166: no token by any path.
CheckToken ==
    /\ pc = "check"
    /\ IF conversationId = NoToken
       THEN /\ response' = JsonError(response, 503,
                    "Cannot obtain new x-xqd-4 and it was not provided nor cached", "")
            /\ pc' = "done"
       ELSE /\ pc' = "fetch"
            /\ UNCHANGED response
    /\ UNCHANGED <<request, conversationId, newConversationId, kv, wire, buffer,
                   streamLocals, body, calls, quota, session, channel>>

\* ChatFails without `await chatResponse.text()`: the 503 carries no
\* upstream text.
ChatFailsNoText ==
    /\ pc = "fetch"
    /\ calls' = [calls EXCEPT !.chat = @ + 1, !.sent = conversationId]
    /\ \E text \in ErrorTexts :
        /\ answer' = [ok |-> FALSE, text |-> text, token |-> NoToken]
        /\ response' = JsonError(response, 503, "Remote API error", "")
    /\ pc' = "done"
    /\ UNCHANGED <<request, conversationId, newConversationId, kv, wire, buffer,
                   streamLocals, frames, terminated, quota, session, channel>>

\* Lines 171-185: the chat endpoint answers with a non-success status.
ChatFails ==
    /\ pc = "fetch"
    /\ calls' = [calls EXCEPT !.chat = @ + 1, !.sent = conversationId]
    /\ \E text \in ErrorTexts :
        /\ answer' = [ok |-> FALSE, text |-> text, token |-> NoToken]
        /\ response' = JsonError(response, 503, "Remote API error", text)
    /\ pc' = "done"
    /\ UNCHANGED <<request, conversationId, newConversationId, kv, wire, buffer,
                   streamLocals, frames, terminated, quota, session, channel>>

\* SetHeader that echoes the token the chat call was sent with.
SetHeaderSent(r, token) == [r EXCEPT !.vqdSet = TRUE, !.vqd = conversationId]

\* Lines 187-188: the renewed token goes into the response header.
SetHeader(r, token) == [r EXCEPT !.vqdSet = TRUE, !.vqd = token]

\* Lines 171-175 and 187-204 with a body-less answer.
ChatNoBody ==
    /\ pc = "fetch"
    /\ calls' = [calls EXCEPT !.chat = @ + 1, !.sent = conversationId]
    /\ \E t \in IssuedTokens \cup {NoToken} :
        /\ answer' = [ok |-> TRUE, text |-> "", token |-> t]
        /\ newConversationId' = t
        /\ response' = JsonError(SetHeader(response, t), 500,
                                 "Unable to parse response", "")
    /\ pc' = "done"
    /\ UNCHANGED <<request, conversationId, kv, wire, buffer, streamLocals,
                   frames, terminated, quota, session, channel>>

\* Lines 171-175 and 187-201: a successful answer; its body goes to the
\* stream translator or to the aggregate translator.
ChatOk ==
    /\ pc = "fetch"
    /\ calls' = [calls EXCEPT !.chat = @ + 1, !.sent = conversationId]
    /\ \E t \in IssuedTokens \cup {NoToken} :
        /\ answer' = [ok |-> TRUE, text |-> "", token |-> t]
        /\ newConversationId' = t
        /\ response' = IF isStream
                       THEN [SetHeader(response, t) EXCEPT !.status = 200]
                       ELSE SetHeader(response, t)
    /\ \E fs \in FrameSeqs(quota), term \in BOOLEAN :
        /\ fs = <<>> => term
        /\ frames' = fs
        /\ terminated' = term
        /\ wire' = EncodeBody(fs, term)
    /\ pc' = IF isStream THEN "stream" ELSE "normal"
    /\ UNCHANGED <<request, conversationId, kv, buffer, streamLocals, quota,
                   session, channel>>

(* --------------------------- the two modes ----------------------------- *)

\* Lines 339-354: one reader.read() that delivers n symbols, the split of
\* the buffer, and the handler run on every complete frame.
StreamRead ==
    /\ pc = "stream"
    /\ wire # <<>>
    /\ \E n \in 1..Len(wire) :
        LET parts == SplitLF(buffer \o SubSeq(wire, 1, n))
            s == StreamState(messageParts, lastMessagePartResponse,
                             responseHasDone, out, kv, 0, kvDown)
        IN  /\ wire' = SubSeq(wire, n + 1, Len(wire))
            /\ buffer' = Last(parts)
            /\ handed' = handed \o Payloads(Front(parts))
            /\ \E r \in {HandleParts(s, Front(parts), messages,
                                     newConversationId, rejects) :
                         rejects \in BOOLEAN} :
                /\ messageParts' = r.messageParts
                /\ lastMessagePartResponse' = r.lastMessagePartResponse
                /\ responseHasDone' = r.responseHasDone
                /\ out' = IF client.aborted THEN out ELSE r.out
                /\ kv' = r.kv
                /\ calls' = [calls EXCEPT !.kvPut = @ + r.kvPuts]
                /\ client' = IF client.aborted
                              THEN [client EXCEPT
                                       !.read = TRUE,
                                       !.stored = @ \/ r.kvPuts > 0]
                              ELSE client
    /\ UNCHANGED <<request, pc, conversationId, newConversationId, response,
                   body, quota, session>>

\* Lines 342-343 and 355-357: end of data; the carry-over buffer is dropped.
StreamEnd ==
    /\ pc = "stream"
    /\ wire = <<>>
    /\ pc' = "done"
    /\ UNCHANGED <<request, conversationId, newConversationId, kv, wire, buffer,
                   streamLocals, response, body, calls, quota,
                   session, channel>>

\* The client goes away while the streaming response is in progress.
\* Nothing in the read loop or in the handler looks at the connection;
\* records written from now on reach nobody.
Disconnect ==
    /\ pc = "stream"
    /\ ~client.aborted
    /\ client' = [client EXCEPT !.aborted = TRUE]
    /\ UNCHANGED <<request, pc, conversationId, newConversationId, kv, wire,
                   buffer, streamLocals, response, body, calls, quota,
                   session, handed>>

\* createNormalResponse: the whole body is read, split and folded, the
\* completion is built, the mapping is stored, the completion is returned.
NormalResponse ==
    /\ pc = "normal"
    /\ LET parts == SplitLF(wire)
           responseContent == FoldParts(<<>>, parts)
           conversationHash ==
               generateConversationHash(Append(messages, responseContent))
       IN  /\ response' = [response EXCEPT
                               !.status = 200,
                               !.content = responseContent,
                               !.finish = "stop",
                               !.usage = <<0, 0, 0>>]
           /\ kv' = putConversationId(kv, kvDown, conversationHash,
                                      newConversationId)
           /\ handed' = Payloads(parts)
    /\ calls' = [calls EXCEPT !.kvPut = @ + 1]
    /\ wire' = <<>>
    /\ buffer' = wire
    /\ pc' = "done"
    /\ UNCHANGED <<request, conversationId, newConversationId, streamLocals,
                   body, quota, session, client>>

(* ------------------------- consecutive requests ------------------------ *)

\* The frames that end a turn: the success frames without text and the
\* literal done marker.
TerminalTags == {"successNoMessage", "successEmptyMessage", "doneMarker"}

\* Whether the body held an end-of-turn frame as a complete line.
TerminalSeen(fs, term) ==
    \E i \in 1..Len(fs) :
        fs[i].tag \in TerminalTags /\ (i < Len(fs) \/ term)

\* The texts of the chunks written downstream, concatenated.
RECURSIVE ConcatContent(_)
ConcatContent(records) ==
    IF records = <<>> THEN <<>>
    ELSE records[1].content \o ConcatContent(Tail(records))

\* The assistant text of the exchange as the worker accumulated it, and as
\* the client received it.
AccumulatedText ==
    IF isStream THEN Join(messageParts, <<>>) ELSE response.content
ClientText == IF isStream THEN ConcatContent(out) ELSE response.content

\* The caller's next request once a request has finished: it continues the
\* conversation (history, assistant text, one new turn) or starts a new
\* one.  The follow-up's own upstream answer has an empty body.
FollowUp ==
    /\ pc = "done"
    /\ ~followUp
    /\ followUp' = TRUE
    /\ prev' = [status |-> response.status, stream |-> isStream,
                hist |-> messages, text |-> AccumulatedText,
                token |-> answer.token,
                ended |-> TerminalSeen(frames, terminated)]
    /\ messages' \in {<<UserText>>}
            \cup {messages \o <<t, UserText>> : t \in {AccumulatedText, ClientText}}
    /\ reqToken' \in CallerTokens \cup {NoToken}
    /\ isStream' \in BOOLEAN
    /\ authorized' = TRUE
    /\ quota' = 0
    /\ pc' = "start"
    /\ conversationId' = NoToken
    /\ newConversationId' = NoToken
    /\ wire' = <<>>
    /\ buffer' = <<>>
    /\ messageParts' = <<>>
    /\ lastMessagePartResponse' = NoChunk
    /\ responseHasDone' = FALSE
    /\ out' = <<>>
    /\ response' = NoResponse
    /\ answer' = NoAnswer
    /\ frames' = <<>>
    /\ terminated' = TRUE
    /\ calls' = NoCalls
    /\ kvDown' \in BOOLEAN
    /\ handed' = <<>>
    /\ client' = Connected
    /\ UNCHANGED <<kv, probe>>

Next ==
    \/ Start
    \/ Lookup
    \/ NewConversationId
    \/ CheckToken
    \/ ChatFails
    \/ ChatNoBody
    \/ ChatOk
    \/ StreamRead
    \/ StreamEnd
    \/ NormalResponse
    \/ FollowUp

\* The session orchestrator and both modes, with clients that stay
\* connected.
Spec == Init /\ [][Next]_vars

(* --------------------- the two translators alone ----------------------- *)

\* The state in which handleChatCompletionsRoute hands a body to one of the
\* translators: the caller sent a token, the chat endpoint answered with
\* success, a renewed token and a body of up to maxFrames frames.
HandOver(maxFrames) ==
    /\ messages = <<UserText>>
    /\ reqToken \in CallerTokens
    /\ isStream \in BOOLEAN
    /\ authorized = TRUE
    /\ conversationId = reqToken
    /\ newConversationId \in IssuedTokens
    /\ kv = EmptyKV
    /\ kvDown = FALSE
    /\ buffer = <<>>
    /\ messageParts = <<>>
    /\ lastMessagePartResponse = NoChunk
    /\ responseHasDone = FALSE
    /\ out = <<>>
    /\ response = IF isStream
                  THEN [SetHeader(NoResponse, newConversationId) EXCEPT !.status = 200]
                  ELSE SetHeader(NoResponse, newConversationId)
    /\ answer = [ok |-> TRUE, text |-> "", token |-> newConversationId]
    /\ calls = [NoCalls EXCEPT !.chat = 1, !.sent = conversationId]
    /\ \E fs \in FrameSeqs(maxFrames), term \in BOOLEAN :
        /\ fs = <<>> => term
        /\ frames = fs
        /\ terminated = term
        /\ wire = EncodeBody(fs, term)
    /\ pc = IF isStream THEN "stream" ELSE "normal"
    /\ quota = maxFrames
    /\ followUp = FALSE
    /\ prev = NoExchange
    /\ probe = NoProbe
    /\ handed = <<>>
    /\ client = Connected

InitTranslators == HandOver(MaxBodyFrames)

NextTranslators ==
    \/ StreamRead
    \/ StreamEnd
    \/ NormalResponse

SpecTranslators == InitTranslators /\ [][NextTranslators]_vars

(* ------------------ a streaming response and its client ---------------- *)

\* A streaming response whose client may go away at any moment.
InitCancel == HandOver(MaxFrames) /\ isStream

NextCancel ==
    \/ StreamRead
    \/ StreamEnd
    \/ Disconnect

SpecCancel == InitCancel /\ [][NextCancel]_vars


(* ======================= claims: stream translator ===================== *)

\* A streaming request of the first turn whose read loop has finished.
StreamFinished == pc = "done" /\ isStream /\ response.status = 200

\* n >= 1 text deltas followed by the literal done marker.
DeltasThenDone(fs) ==
    /\ Len(fs) >= 2
    /\ \A i \in 1..(Len(fs) - 1) : fs[i].tag = "messageDelta"
    /\ fs[Len(fs)].tag = "doneMarker"

\* Zero or more text deltas, a success frame without text, the done marker.
DeltasSuccessDone(fs) ==
    /\ Len(fs) >= 2
    /\ \A i \in 1..(Len(fs) - 2) : fs[i].tag = "messageDelta"
    /\ fs[Len(fs) - 1].tag \in {"successNoMessage", "successEmptyMessage"}
    /\ fs[Len(fs)].tag = "doneMarker"

\* One delta chunk per delta frame, in arrival order.
DeltaChunks(fs) ==
    [i \in 1..Len(fs) |-> Chunk(TRUE, StrValue(fs[i].text), "null")]

\* How many times a record occurs in what was written downstream.
Occurrences(records, x) == Cardinality({i \in 1..Len(records) : records[i] = x})

\* C1: for n >= 1 text deltas followed by the done marker, every frame a
\* complete line, the stream translator writes one delta chunk per delta in
\* arrival order, then a final chunk with finish_reason stop and an empty
\* delta, then the terminal sentinel.
C1_HoldingBufferFlushedOnDone ==
    (StreamFinished /\ terminated /\ DeltasThenDone(frames))
        => out = DeltaChunks(Front(frames))
                 \o <<Chunk(FALSE, <<>>, "stop"), Sentinel>>

\* C2: a streaming response whose upstream body carried text and then an
\* end-of-turn frame (either success frame, or the done marker) has the
\* terminal sentinel as the last record written when the read loop finishes.
C2_StreamEndsWithSentinel ==
    (/\ StreamFinished
     /\ frames # <<>>
     /\ frames[1].tag = "messageDelta"
     /\ TerminalSeen(frames, terminated))
        => (out # <<>> /\ Last(out) = Sentinel)

\* C3: for zero or more text deltas, then a success frame without text, then
\* the done marker, the terminal sentinel is written exactly once.
C3_SentinelExactlyOnce ==
    (StreamFinished /\ terminated /\ DeltasSuccessDone(frames))
        => Occurrences(out, Sentinel) = 1


(* ===================== claims: session orchestrator ==================== *)

\* C4: when an exchange with history H ended on an end-of-turn frame with
\* non-empty assistant text R and upstream token T, a following request
\* without x-vqd-4 header whose history is H, R and one new turn resolves
\* its continuation token to T.
C4_ContinuityAcrossRequests ==
    (/\ followUp
     /\ pc = "check"
     /\ reqToken = NoToken
     /\ prev.status = 200
     /\ prev.token # NoToken
     /\ prev.text # <<>>
     /\ prev.ended
     /\ Front(messages) = Append(prev.hist, prev.text))
        => conversationId = prev.token

\* C5 as claimed: every response of the route, whatever the outcome,
\* carries an x-vqd-4 header holding the upstream's newly issued token.
C5_HeaderOnEveryResponse ==
    response.status # 0 => (response.vqdSet /\ response.vqd = answer.token)

\* C5 as amended: every 200 response, streaming or aggregate, carries an
\* x-vqd-4 header equal to the token the upstream issued with this answer
\* (empty when it issued none); a 401 or 503 response carries none.
C5_HeaderOnSuccess ==
    /\ response.status = 200
        => (response.vqdSet /\ response.vqd = answer.token)
    /\ response.status \in {401, 503} => ~response.vqdSet

\* C5 witness: a finished streaming response that carries the issued token.
C5_Witness ==
    /\ StreamFinished
    /\ response.vqdSet
    /\ response.vqd \in IssuedTokens
    /\ calls.sent # response.vqd

\* The text of every delta frame of a body, in arrival order.
RECURSIVE DeltaText(_)
DeltaText(fs) ==
    IF fs = <<>> THEN <<>>
    ELSE (IF fs[1].tag = "messageDelta" THEN StrValue(fs[1].text) ELSE <<>>)
         \o DeltaText(Tail(fs))

\* C6: the aggregate completion's content is the concatenation, in arrival
\* order, of the text of every delta frame of the body and of nothing else,
\* with finish_reason stop and the three usage counters 0.
C6_AggregateContent ==
    (pc = "done" /\ ~isStream /\ response.status = 200)
        => /\ response.content = DeltaText(frames)
           /\ response.finish = "stop"
           /\ response.usage = <<0, 0, 0>>

\* C6 witness: an aggregate completion made of two different deltas.
C6_Witness ==
    /\ pc = "done" /\ ~isStream /\ response.status = 200
    /\ Len(response.content) = 2
    /\ response.content[1] # response.content[2]

\* C7: the token the chat call carries is the caller's x-vqd-4 header when
\* present (no cache read, no status call); otherwise the token the cache
\* returns for the fingerprint of all turns but the last when it returns
\* one (no status call); otherwise the token the status endpoint returned.
C7_TokenResolution ==
    /\ pc = "fetch" =>
        IF reqToken # NoToken
        THEN conversationId = reqToken /\ calls.kvGet = 0 /\ calls.status = 0
        ELSE LET key == hashString(
                            Join(SubSeq(messages, 1, Len(messages) - 1), <<",">>),
                            "SHA-256")
             IN  IF ~kvDown /\ key \in DOMAIN kv /\ kv[key] # NoToken
                 THEN conversationId = kv[key]
                      /\ calls.kvGet = 1 /\ calls.status = 0
                 ELSE conversationId \in StatusTokens
                      /\ calls.kvGet = 1 /\ calls.status = 1
    /\ calls.chat > 0 => calls.sent = conversationId

\* C7 witness: a follow-up request about to call the chat endpoint with a
\* token it found in the cache.
C7_Witness ==
    /\ pc = "fetch"
    /\ reqToken = NoToken
    /\ calls.kvGet = 1
    /\ calls.status = 0
    /\ conversationId \in IssuedTokens

\* C8: with no caller token, a cache miss and no token from the status
\* endpoint, the request ends with a 503, the chat endpoint is never called
\* and the cache is never written.
C8_FailFast ==
    (reqToken = NoToken /\ calls.status = 1 /\ conversationId = NoToken)
        => \/ pc = "check"
           \/ /\ pc = "done"
              /\ response.status = 503
              /\ calls.chat = 0
              /\ calls.kvPut = 0
              /\ out = <<>>

\* C8 witness: the 503 after the status endpoint returned no token.
C8_Witness ==
    /\ pc = "done"
    /\ response.status = 503
    /\ calls.status = 1
    /\ calls.chat = 0

\* C9: when the chat endpoint answers with a non-success status the request
\* ends with a 503 carrying the raw body text, no translator runs, nothing
\* is written as chunk or completion, and the cache is not written.
C9_UpstreamFailure ==
    (calls.chat = 1 /\ ~answer.ok)
        => /\ pc = "done"
           /\ response.status = 503
           /\ response.message = answer.text
           /\ out = <<>>
           /\ messageParts = <<>>
           /\ response.content = <<>>
           /\ response.finish = ""
           /\ calls.kvPut = 0

\* C9 witness: the 503 that carries the upstream's raw text.
C9_Witness ==
    /\ pc = "done"
    /\ calls.chat = 1
    /\ ~answer.ok
    /\ response.status = 503
    /\ response.message = "rate limited"


(* ====================== the fingerprint engine alone =================== *)

\* The characters of a turn: a letter and the separator of the join.
TextChars == {"a", ","}

\* The non-empty texts of at most n characters.
RECURSIVE TextsUpTo(_)
TextsUpTo(n) ==
    IF n <= 1 THEN {<<c>> : c \in TextChars}
    ELSE LET shorter == TextsUpTo(n - 1) IN
         shorter \cup {Append(t, c) : t \in shorter, c \in TextChars}

\* The histories of at most n turns.
RECURSIVE HistoriesUpTo(_)
HistoriesUpTo(n) ==
    IF n = 0 THEN {<<>>}
    ELSE LET shorter == HistoriesUpTo(n - 1) IN
         shorter \cup {Append(h, t) : h \in shorter, t \in TextsUpTo(MaxTextLen)}

InitFingerprint ==
    /\ messages = <<>>
    /\ reqToken = NoToken
    /\ isStream = FALSE
    /\ authorized = TRUE
    /\ kv = EmptyKV
    /\ kvDown = FALSE
    /\ quota = 0
    /\ followUp = FALSE
    /\ prev = NoExchange
    /\ pc = "fingerprint"
    /\ FreshRequest
    /\ \E a \in HistoriesUpTo(MaxTurns), b \in HistoriesUpTo(MaxTurns) :
           probe = [NoProbe EXCEPT !.a = a, !.b = b]

\* generateConversationHash applied to both histories.
ApplyFingerprint ==
    /\ pc = "fingerprint"
    /\ ~probe.applied
    /\ probe' = [probe EXCEPT
                    !.fa = generateConversationHash(probe.a),
                    !.fb = generateConversationHash(probe.b),
                    !.applied = TRUE]
    /\ UNCHANGED <<request, pc, conversationId, newConversationId, kv, wire,
                   buffer, streamLocals, response, body, calls, quota,
                   followUp, prev, kvDown, channel>>

NextFingerprint == ApplyFingerprint

SpecFingerprint == InitFingerprint /\ [][NextFingerprint]_vars

\* C10: two histories have the same fingerprint only if they consist of the
\* same texts in the same order; any difference, a different split of the
\* same characters into turns included, gives a different fingerprint.
C10_FingerprintSeparatesHistories ==
    (probe.applied /\ probe.a # probe.b) => probe.fa # probe.fb


(* ================== claims: the translators on any body ================ *)

\* The frames of the body that arrived as complete lines.
CompleteFrames == IF terminated THEN frames ELSE Front(frames)

\* The frames that fail to parse or to classify.
GarbageTags == {"malformed", "unclassifiable"}
RECURSIVE WithoutGarbage(_)
WithoutGarbage(fs) ==
    IF fs = <<>> THEN <<>>
    ELSE (IF fs[1].tag \in GarbageTags THEN <<>> ELSE <<fs[1]>>)
         \o WithoutGarbage(Tail(fs))

\* The stream translator of this request, as it is now and as it started.
Translator ==
    StreamState(messageParts, lastMessagePartResponse, responseHasDone, out,
                kv, 0, kvDown)
FreshTranslator == StreamState(<<>>, NoChunk, FALSE, <<>>, EmptyKV, 0, kvDown)

\* The states the translator of this request ends in when it is handed the
\* frames fs one after the other, each as a complete line.
Translations(fs) ==
    {HandleParts(FreshTranslator, [i \in 1..Len(fs) |-> EncodeFrame(fs[i])],
                 messages, newConversationId, rejects) : rejects \in BOOLEAN}

\* C11: the records written downstream, the accumulated text, the held
\* chunk and the cache of a streaming response are those of the same body
\* with every unparsable or unclassifiable frame taken out; such a frame
\* changes nothing of the translator in any state, and the response stays
\* a 200 without error.
C11_MalformedFrameResilience ==
    /\ (StreamFinished /\ followUp = FALSE)
        => \E r \in Translations(WithoutGarbage(CompleteFrames)) :
                r = [Translator EXCEPT !.kvPuts = r.kvPuts]
    /\ (isStream /\ pc \in {"stream", "done"} /\ response.status # 0 /\ answer.ok)
        => /\ response.status = 200 /\ response.error = ""
           /\ \A tag \in GarbageTags, rejects \in BOOLEAN :
                handleStreamResponsePart(
                    Translator, Substring(EncodeFrame(Event(tag)), PrefixLen),
                    messages, newConversationId, rejects) = Translator

\* C11 witness: an unparsable frame between two deltas, both translated.
C11_Witness ==
    /\ StreamFinished /\ terminated
    /\ Len(frames) = 3
    /\ frames[1].tag = "messageDelta"
    /\ frames[2].tag = "malformed"
    /\ frames[3].tag = "messageDelta"
    /\ messageParts = <<StrValue(frames[1].text), StrValue(frames[3].text)>>
    /\ out = <<Chunk(TRUE, StrValue(frames[1].text), "null")>>

\* What the read loop has taken from the upstream body so far.
Consumed ==
    LET whole == EncodeBody(frames, terminated)
    IN  SubSeq(whole, 1, Len(whole) - Len(wire))

\* The line ends in a text.
LFCount(s) == Cardinality({i \in 1..Len(s) : s[i] = LF})

\* The payloads of a sequence of frames.
FramePayloads(fs) ==
    [i \in 1..Len(fs) |-> Substring(EncodeFrame(fs[i]), PrefixLen)]

\* C12: however the body is cut into reads, the payloads handed to the
\* translator so far are those of the frames whose line end has been read,
\* each once and in order, and at the end of data those of every frame that
\* arrived as a complete line.
C12_ReassemblyIndependentOfCuts ==
    (isStream /\ pc \in {"stream", "done"} /\ answer.ok)
        => /\ handed = FramePayloads(SubSeq(frames, 1, LFCount(Consumed)))
           /\ pc = "done" => handed = FramePayloads(CompleteFrames)

\* C12 witness: one frame decoded, the next one arrived in part.
C12_Witness ==
    /\ isStream /\ pc = "stream"
    /\ buffer = <<Prefix, "{", "M">>
    /\ Len(handed) = 1
    /\ handed[1] = <<"{", "M", "a", "}">>

\* The success frames without text.
SuccessTags == {"successNoMessage", "successEmptyMessage"}

\* C13: a streaming response whose body held a success frame without text
\* as a complete line, with or without deltas before it, has written the
\* held chunk with finish_reason stop (when there was one) and then the
\* terminal sentinel, is DONE, and has written nothing but chunks before the
\* sentinel.
C13_SuccessFrameEndsTurn ==
    (/\ StreamFinished
     /\ \E i \in 1..Len(CompleteFrames) : CompleteFrames[i].tag \in SuccessTags)
        => /\ responseHasDone
           /\ out # <<>>
           /\ Last(out) = Sentinel
           /\ \A i \in 1..(Len(out) - 1) : out[i].kind = "chunk"
           /\ messageParts # <<>>
                => /\ Len(out) >= 2
                   /\ out[Len(out) - 1] = Chunk(TRUE, Last(messageParts), "stop")

\* C14: a streaming response whose body held an end-of-turn frame (a
\* success frame without text, or the done marker) as a complete line has
\* stored the upstream's token under the fingerprint of the request history
\* followed by the accumulated text, the empty text included.
C14_PersistedOnTermination ==
    (StreamFinished /\ TerminalSeen(frames, terminated) /\ ~kvDown)
        => LET key == generateConversationHash(
                          Append(messages, Join(messageParts, <<>>)))
           IN  key \in DOMAIN kv /\ kv[key] = newConversationId

\* The payload of every kind of frame.
AnyPayload == {Substring(EncodeFrame(f), PrefixLen) : f \in FrameKinds}

\* C15: once the translator is DONE no step of the read loop writes a
\* record, changes the held chunk or the accumulated text, or writes to the
\* cache, and no frame of any kind would; a blank frame changes nothing in
\* any state; the terminal sentinel is never written more than once.
C15_DoneIsAbsorbing ==
    /\ [][(pc = "stream" /\ responseHasDone)
            => (UNCHANGED <<streamLocals, kv>> /\ calls'.kvPut = calls.kvPut)]_vars
    /\ [](/\ (isStream /\ answer.ok /\ responseHasDone)
               => \A p \in AnyPayload, rejects \in BOOLEAN :
                     handleStreamResponsePart(Translator, p, messages,
                         newConversationId, rejects) = Translator
          /\ (isStream /\ answer.ok)
               => \A rejects \in BOOLEAN :
                     handleStreamResponsePart(Translator,
                         Substring(EncodeFrame(Event("blankFrame")), PrefixLen),
                         messages, newConversationId, rejects) = Translator
          /\ Occurrences(out, Sentinel) <= 1)

\* C15 witness: a delta handed to the translator after it was DONE.
C15_Witness ==
    /\ StreamFinished /\ terminated
    /\ Len(frames) = 3
    /\ frames[1].tag = "messageDelta"
    /\ frames[2].tag \in SuccessTags
    /\ frames[3].tag = "messageDelta"
    /\ Len(handed) = 3
    /\ responseHasDone
    /\ out = <<Chunk(TRUE, StrValue(frames[1].text), "stop"), Sentinel>>

\* The payloads of the end-of-turn frames.
TerminalPayloads ==
    {Substring(EncodeFrame(Event(tag)), PrefixLen) : tag \in TerminalTags}

\* C16: in streaming and in aggregate mode, a request that has written to
\* the cache has been handed an end-of-turn frame before; a body that ends
\* without any end marker leads to no cache write.
C16_CacheWriteOnlyAfterTerminal ==
    (answer.ok /\ calls.kvPut > 0)
        => \E i \in 1..Len(handed) : handed[i] \in TerminalPayloads

\* C17: when the body ends in a fragment without line end, that fragment
\* is handed to no translator: the payloads handed on are those of the
\* frames before it, and the aggregate content is the text of the deltas
\* before it.
C17_CarryOverDiscarded ==
    (pc = "done" /\ answer.ok /\ response.status = 200 /\ ~terminated)
        => /\ handed = FramePayloads(Front(frames))
           /\ ~isStream => response.content = DeltaText(Front(frames))


(* ===================== claims: cache failures ========================== *)

\* The states the stream translator would end in on the complete frames of
\* this body with the key-value backend available.
TranslationsCacheUp ==
    {HandleParts([FreshTranslator EXCEPT !.kvDown = FALSE],
                 [i \in 1..Len(CompleteFrames) |-> EncodeFrame(CompleteFrames[i])],
                 messages, newConversationId, rejects) : rejects \in BOOLEAN}

C20_OneEventLookahead ==
    (isStream /\ answer.ok /\ pc \in {"stream", "done"})
        => /\ ~responseHasDone
                => IF lastMessagePartResponse = NoChunk
                   THEN messageParts = <<>> /\ out = <<>>
                   ELSE /\ messageParts # <<>>
                        /\ lastMessagePartResponse
                               = Chunk(TRUE, Last(messageParts), "null")
                        /\ out = [i \in 1..(Len(messageParts) - 1) |->
                                     Chunk(TRUE, messageParts[i], "null")]
           /\ \A i \in 1..Len(out) :
                (out[i].kind = "chunk" /\ out[i].finish # "null")
                    => (responseHasDone /\ i = Len(out) - 1)

\* C20 witness: two chunks written, a third one held, the turn not ended.
C20_Witness ==
    /\ isStream /\ pc = "stream" /\ ~responseHasDone
    /\ Len(messageParts) = 3
    /\ Len(out) = 2
    /\ out[1].content # out[2].content
    /\ lastMessagePartResponse # NoChunk


(* ======================== claims: cancellation ========================= *)

\* C19: once the client of a streaming response has gone, the worker reads
\* no more of the upstream body and writes nothing to the cache for that
\* request.
C19_CancellationStopsWork ==
    client.aborted => (~client.read /\ ~client.stored)


(* =================== claims: the two modes compared ==================== *)

\* What createNormalResponse makes of the body of this request: the
\* completion's content and the cache it leaves.
AggregateContent == FoldParts(<<>>, SplitLF(EncodeBody(frames, terminated)))
AggregateCache ==
    putConversationId(EmptyKV, kvDown,
        generateConversationHash(Append(messages, AggregateContent)),
        newConversationId)

\* C21: a finished streaming response has written delta texts whose
\* concatenation is the content the aggregate translator gives for the same
\* history, token and body, and has left the cache with the mapping the
\* aggregate translator leaves.
C21_StreamAggregateAgreement ==
    (StreamFinished /\ ~followUp)
        => /\ ConcatContent(out) = AggregateContent
           /\ kv = AggregateCache


====
